---- MODULE Spec2Model ----
(***************************************************************************)
(* A model of django-seo's backend framework (djangoseo/backends.py) and   *)
(* of the path handling of its template tag (templatetags/seo.py).        *)
(*                                                                         *)
(* The module holds several specifications over one set of variables, one *)
(* per area of the code:                                                   *)
(*   Spec          value resolution (MetadataBaseModel._resolve_value and  *)
(*                 the four variants' overrides)                           *)
(*   SpecValidate  the backends' validate(options)                         *)
(*   SpecPath      path canonicalization in PathMetadataBase.save and in   *)
(*                 the template tag, and the Path backend's lookup         *)
(*   SpecStore     ModelInstanceMetadataBase.save against the table's      *)
(*                 derived uniqueness constraints                          *)
(*   SpecQuery     the manager's by_params                                 *)
(*   SpecSchema    get_model building the backends' model classes with     *)
(*                 their derived unique_together                           *)
(*   SpecHandoff   the context ModelInstance's _process_context writes and *)
(*                 the Model backend's get_instances reads                 *)
(* A specification draws the inputs of its own area in its initial states  *)
(* and leaves the variables of the other areas at rest.                    *)
(***************************************************************************)
EXTENDS Integers, Sequences, FiniteSets, TLC

VARIABLES
    \* ---- value resolution: one metadata record and its definition ----
    variant,        \* which backend's record class the record is
    elements,       \* self._metadata._meta.elements: name -> element
    stored,         \* the record's stored attribute per declared field
    content_object, \* ModelInstance record: self._content_object
    ctx_attr,       \* the record's private __context attribute
    instance_attr,  \* Model record: the private __instance attribute
    context,        \* the resolution context dict handed to _process_context
    view_context,   \* the rendering context object context['view_context']
    pc,             \* "idle", "returned" or "raised" (outcome of the last call)
    req_name,       \* the name last passed to _resolve_value
    base_result,    \* what MetadataBaseModel._resolve_value returned to the variant
    result,         \* what the variant's _resolve_value returned
    \* ---- configuration ----
    options,        \* Options: use_sites, use_i18n, use_subdomains, backends
    validated,      \* the backend whose validate(options) ran last
    outcome,        \* "none", "ok" or the exception validate raised
    \* ---- a Path metadata record and a template-tag lookup ----
    APPEND_SLASH,   \* settings.APPEND_SLASH
    supplied,       \* the path the user gave the record: [comp, segs]
    path_attr,      \* the record's self._path
    db_path,        \* the row persisted for the record: [saved, path]
    saves,          \* how many times the record was saved
    first_saved,    \* self._path right after the first save
    target,         \* the path of the last request: [comp, segs]
    lookup_path,    \* the path the template tag looked up
    found,          \* whether the lookup matched the persisted row
    \* ---- the ModelInstance backend's table ----
    mi_table,       \* the persisted ModelInstance rows
    db_nulls_distinct, \* whether the database's unique constraints treat
                    \* NULLs as distinct (PostgreSQL, MySQL, SQLite do)
    save_outcome,   \* "none", "saved" or "swallowed" (IntegrityError caught)
    \* ---- a backend's table and a by_params query on it ----
    path_table,     \* the persisted rows of the table the manager reads
    query,          \* the arguments of the last by_params call
    query_error,    \* whether evaluating it raised FieldError
    queryset,       \* the rows it returned, in the order returned
    \* ---- the backends' model classes ----
    unique_together, \* each backend object's unique_together attribute
    meta,           \* Meta.unique_together of each backend's model class
    built,          \* the last get_model call: [backend, options]
    \* ---- one resolution's context, shared by the backends ----
    shared_context, \* the context dict handed from backend to backend
    matched,        \* the ModelInstance record matched: [pk, raised]
    candidates      \* what the Model backend's get_instances returned

resolveVars == <<variant, elements, stored, content_object, ctx_attr,
                 instance_attr, context, view_context, pc, req_name,
                 base_result, result>>

validateVars == <<options, validated, outcome>>

pathVars == <<APPEND_SLASH, supplied, path_attr, db_path, saves, first_saved,
              target, lookup_path, found>>

storeVars == <<mi_table, db_nulls_distinct, save_outcome>>

queryVars == <<path_table, query, query_error, queryset>>

schemaVars == <<unique_together, meta, built>>

handoffVars == <<shared_context, matched, candidates>>

vars == <<resolveVars, validateVars, pathVars, storeVars, queryVars,
          schemaVars, handoffVars>>

-----------------------------------------------------------------------------
(* Values.  A Python value is None or a string; a string is a sequence of  *)
(* tokens, a token being either plain text or a template variable         *)
(* reference "{{x}}".                                                      *)

NoneV == [t |-> "None", s |-> <<>>]
Str(s) == [t |-> "str", s |-> s]

\* Python truthiness of a stored value: None and '' are falsy.
Truthy(v) == v.t = "str" /\ v.s # <<>>

\* The template variables that occur in the modelled strings.
TokenVar == [tok \in {"{{v}}", "{{w}}", "{{product}}"} |->
                CASE tok = "{{v}}" -> "v"
                  [] tok = "{{w}}" -> "w"
                  [] tok = "{{product}}" -> "product"]
Vars == {"v", "w", "product"}

\* "{" in value
HasBrace(s) == \E i \in 1..Len(s) : s[i] \in DOMAIN TokenVar

\* Template(value).render(context): every variable reference is replaced by
\* the context's value for it, '' when the context has none.
RECURSIVE TemplateRender(_, _)
TemplateRender(s, c) ==
    IF s = <<>> THEN <<>>
    ELSE (IF Head(s) \in DOMAIN TokenVar
          THEN c[TokenVar[Head(s)]].s
          ELSE <<Head(s)>>) \o TemplateRender(Tail(s), c)

\* Context(): no variable is bound.
EmptyContext == [x \in Vars |-> NoneV]

NoObject == "None"

-----------------------------------------------------------------------------
(* Bounds and input sets of the value-resolution specification.            *)

\* Python's recursion limit, scaled down: the deepest chain of nested
\* _resolve_value calls the interpreter allows.
RecursionLimit == 4

Fields == {"title", "heading"}
Variants == {"path", "view", "modelinstance", "model"}

\* Attributes of the metadata definition object that are not elements.
AttrNames == {"site_name", "get_tagline", "tagline_fn"}
Names == Fields \cup AttrNames \cup {"missing"}

Callables == {"fn"}
NotSet == [k |-> "NotSet", name |-> "", value |-> NoneV]
CallableSpec(f) == [k |-> "callable", name |-> f, value |-> NoneV]
LiteralSpec(v) == [k |-> "Literal", name |-> "", value |-> v]
AliasSpec(n) == [k |-> "alias", name |-> n, value |-> NoneV]

PopulateFroms ==
    {NotSet} \cup {CallableSpec(f) : f \in Callables}
             \cup {LiteralSpec(Str(<<"{{product}}">>))}
             \cup {AliasSpec(n) : n \in Fields \cup {"site_name"}}

\* An element and the record's stored value for it.  A non-editable element
\* has no column on the record, so nothing is stored for it.
StoredValues == {NoneV, Str(<<>>), Str(<<"{{v}}">>)}
FieldSetups ==
    {[editable |-> TRUE, populate_from |-> p, stored |-> s] :
        p \in PopulateFroms, s \in StoredValues}
    \cup {[editable |-> FALSE, populate_from |-> p, stored |-> NoneV] :
        p \in PopulateFroms}

\* The rendering context of the request: v is bound to text that itself
\* holds a variable reference, w to plain text.
RequestViewContext ==
    [x \in Vars |-> CASE x = "v" -> Str(<<"{{w}}">>)
                      [] x = "w" -> Str(<<"W">>)
                      [] OTHER -> NoneV]

\* The context dicts _process_context may be handed: with or without a
\* 'view_context' key, with or without a 'model_instance' key (the content
\* object of the ModelInstance record matched before).
NoContext == [passed |-> FALSE, view_context |-> FALSE,
              content_type |-> "absent", model_instance |-> "absent"]
Contexts ==
    {[passed |-> TRUE, view_context |-> vc,
      content_type |-> "absent", model_instance |-> mi] :
        vc \in BOOLEAN, mi \in {"absent", "product"}}

-----------------------------------------------------------------------------
(* MetadataBaseModel._resolve_template                                     *)

\* c is the context argument: [none |-> TRUE] for None, else the view
\* context's bindings.  Returns the value and the bindings afterwards.
ResolveTemplate(value, model_instance, c) ==
    IF value.t = "str" /\ HasBrace(value.s)
    THEN LET c0 == IF c.none THEN EmptyContext ELSE c.vars
             c1 == IF model_instance # NoObject
                   THEN [c0 EXCEPT !["product"] = Str(<<model_instance>>)]
                   ELSE c0
         IN  [value |-> Str(TemplateRender(value.s, c1)),
              vc |-> IF c.none THEN c.vars ELSE c1]
    ELSE [value |-> value, vc |-> c.vars]

\* The record's __context attribute as an argument value.
ContextArg(vc) == [none |-> ctx_attr # "view_context", vars |-> vc]

-----------------------------------------------------------------------------
(* _populate_from_kwargs of the four record classes                        *)

PopulateFromKwargs ==
    CASE variant = "path" -> <<"path", "/x/">>
      [] variant = "view" -> <<"view_name", "home">>
      [] variant = "modelinstance" -> <<"model_instance", content_object>>
      [] variant = "model" -> <<"content_type", "ct1">>

\* populate_from(self, **kwargs): the callable's result is some text that
\* depends on the callable and on the arguments it was given.
Invoke(f, kwargs) == Str(<<f>> \o kwargs)

\* getattr(self._metadata, name) for a name that is no element: a plain
\* value, a callable that carries im_self (a bound method under Python 2), a
\* callable that does not, or no such attribute.
MetadataAttr(name) ==
    CASE name = "site_name" -> [kind |-> "value", im_self |-> FALSE]
      [] name = "get_tagline" -> [kind |-> "callable", im_self |-> TRUE]
      [] name = "tagline_fn" -> [kind |-> "callable", im_self |-> FALSE]
      [] OTHER -> [kind |-> "absent", im_self |-> FALSE]

\* The attribute's value, a callable being invoked on the record when it
\* carries im_self and on the metadata definition object otherwise.
AttrValue(name) ==
    LET attr == MetadataAttr(name)
    IN  CASE attr.kind = "absent" -> NoneV
          [] attr.kind = "value" -> Str(<<name>>)
          [] attr.kind = "callable" ->
               Str(<<name, IF attr.im_self THEN "self" ELSE "self._metadata">>)

-----------------------------------------------------------------------------
(* _resolve_value: the base method and the four overrides.  A call returns *)
(* [raised, value, base, vc]: whether the interpreter's recursion limit    *)
(* was hit, the returned value, the value the base method handed to the   *)
(* override, and the view context's bindings afterwards.                   *)

Raised(vc) == [raised |-> TRUE, value |-> NoneV, base |-> NoneV, vc |-> vc]
Returned(v, b, vc) == [raised |-> FALSE, value |-> v, base |-> b, vc |-> vc]

\* A plausible slip: the populate-from default wins over the stored value.
StoredShortCircuits_DefaultFirst(name) ==
    /\ elements[name].editable
    /\ Truthy(stored[name])
    /\ elements[name].populate_from.k = "NotSet"

\* A plausible slip: "if value is not None" instead of "if value".
StoredShortCircuits_NotNone(name) ==
    elements[name].editable /\ stored[name].t = "str"

\* if element.editable: value = getattr(self, name); if value: return value
StoredShortCircuits(name) ==
    elements[name].editable /\ Truthy(stored[name])

RECURSIVE ResolveValue(_, _, _)
RECURSIVE BaseResolveValue(_, _, _)

\* MetadataBaseModel._resolve_value
BaseResolveValue(name, depth, vc) ==
    LET populate_from == elements[name].populate_from
        fallThrough == Returned(AttrValue(name), AttrValue(name), vc)
    IN  IF name \in DOMAIN elements
        THEN IF StoredShortCircuits(name)
             THEN Returned(stored[name], stored[name], vc)
             ELSE CASE populate_from.k = "callable" ->
                         LET r == Invoke(populate_from.name, PopulateFromKwargs)
                         IN  Returned(r, r, vc)
                    [] populate_from.k = "Literal" ->
                         Returned(populate_from.value, populate_from.value, vc)
                    [] populate_from.k = "alias" ->
                         ResolveValue(populate_from.name, depth + 1, vc)
                    [] OTHER -> fallThrough
        ELSE fallThrough

\* PathMetadataBase._resolve_value: reading self.__context raises
\* AttributeError until _process_context has set it; the value is then
\* returned as the base method gave it.
PathResolveValue(name, depth, vc) ==
    LET b == BaseResolveValue(name, depth, vc)
    IN  IF b.raised THEN b
        ELSE IF ctx_attr = "unset"
             THEN Returned(b.value, b.value, b.vc)
             ELSE LET r == ResolveTemplate(b.value, NoObject, ContextArg(b.vc))
                  IN  Returned(r.value, b.value, r.vc)

\* ViewMetadataBase._resolve_value: the class declares __context = None, so
\* the attribute always exists.
ViewResolveValue(name, depth, vc) ==
    LET b == BaseResolveValue(name, depth, vc)
    IN  IF b.raised THEN b
        ELSE LET r == ResolveTemplate(b.value, NoObject, ContextArg(b.vc))
             IN  Returned(r.value, b.value, r.vc)

\* ModelInstanceMetadataBase._resolve_value
ModelInstanceResolveValue(name, depth, vc) ==
    LET b == BaseResolveValue(name, depth, vc)
    IN  IF b.raised THEN b
        ELSE IF ctx_attr = "unset"
             THEN Returned(b.value, b.value, b.vc)
             ELSE LET r == ResolveTemplate(b.value, content_object,
                                           ContextArg(b.vc))
                  IN  Returned(r.value, b.value, r.vc)

\* ModelMetadataBase._resolve_value
ModelResolveValue(name, depth, vc) ==
    LET b == BaseResolveValue(name, depth, vc)
    IN  IF b.raised THEN b
        ELSE LET r == ResolveTemplate(b.value, instance_attr, ContextArg(b.vc))
             IN  Returned(r.value, b.value, r.vc)

\* self._resolve_value(name): dispatch on the record's class.  Each nested
\* call deepens the interpreter's stack; past the limit it raises.
ResolveValue(name, depth, vc) ==
    IF depth > RecursionLimit THEN Raised(vc)
    ELSE CASE variant = "path" -> PathResolveValue(name, depth, vc)
           [] variant = "view" -> ViewResolveValue(name, depth, vc)
           [] variant = "modelinstance" -> ModelInstanceResolveValue(name, depth, vc)
           [] variant = "model" -> ModelResolveValue(name, depth, vc)

-----------------------------------------------------------------------------
(* Actions of the value-resolution specification                           *)

ResolveInit ==
    /\ variant \in Variants
    /\ \E setup \in [Fields -> FieldSetups] :
          /\ elements = [f \in Fields |->
                [editable |-> setup[f].editable,
                 populate_from |-> setup[f].populate_from]]
          /\ stored = [f \in Fields |-> setup[f].stored]
    /\ content_object = IF variant = "modelinstance" THEN "product" ELSE NoObject
    \* View and Model declare __context = None on the class; Path and
    \* ModelInstance do not, so the attribute does not exist at first.
    /\ ctx_attr = IF variant \in {"view", "model"} THEN "None" ELSE "unset"
    /\ instance_attr = NoObject
    /\ context = NoContext
    /\ view_context = RequestViewContext
    /\ pc = "idle"
    /\ req_name = ""
    /\ base_result = NoneV
    /\ result = NoneV

\* record._process_context(context)
ProcessContext(c) ==
    /\ ctx_attr' = IF c.view_context THEN "view_context" ELSE "None"
    /\ instance_attr' = IF variant = "model"
                        THEN (IF c.model_instance = "absent" THEN NoObject
                              ELSE c.model_instance)
                        ELSE instance_attr
    /\ context' = IF variant = "modelinstance"
                  THEN [c EXCEPT !.content_type = "ct1",
                                 !.model_instance = content_object]
                  ELSE c
    /\ pc' = "idle"
    /\ UNCHANGED <<variant, elements, stored, content_object, view_context,
                   req_name, base_result, result>>
    /\ UNCHANGED <<validateVars, pathVars, storeVars, queryVars, schemaVars,
                   handoffVars>>

\* record._resolve_value(name)
Resolve(name) ==
    LET r == ResolveValue(name, 1, view_context)
    IN  /\ req_name' = name
        /\ pc' = IF r.raised THEN "raised" ELSE "returned"
        /\ result' = r.value
        /\ base_result' = r.base
        /\ view_context' = r.vc
        /\ UNCHANGED <<variant, elements, stored, content_object, ctx_attr,
                       instance_attr, context>>
        /\ UNCHANGED <<validateVars, pathVars, storeVars, queryVars, schemaVars,
                       handoffVars>>

\* A record at rest, for the specifications of the other areas.
ResolveIdle ==
    /\ variant = "path"
    /\ elements = [f \in Fields |-> [editable |-> TRUE, populate_from |-> NotSet]]
    /\ stored = [f \in Fields |-> NoneV]
    /\ content_object = NoObject
    /\ ctx_attr = "unset"
    /\ instance_attr = NoObject
    /\ context = NoContext
    /\ view_context = RequestViewContext
    /\ pc = "idle"
    /\ req_name = ""
    /\ base_result = NoneV
    /\ result = NoneV

-----------------------------------------------------------------------------
(* Options and the backends' validate(options)                             *)

BackendNames == {"path", "view", "modelinstance", "model"}

\* The ordered lists of active backend names, each registered name at most
\* once.
BackendLists ==
    {bs \in UNION {[1..n -> BackendNames] : n \in 0..Cardinality(BackendNames)} :
        \A i, j \in DOMAIN bs : i # j => bs[i] # bs[j]}

\* list.index(x): the first position of x; 0 stands for ValueError.
Index(bs, x) ==
    IF \E i \in DOMAIN bs : bs[i] = x
    THEN CHOOSE i \in DOMAIN bs : bs[i] = x /\ \A j \in 1..(i - 1) : bs[j] # x
    ELSE 0

NotInstalled == "Exception: 'modelinstance' must be installed"
WrongOrder == "Exception: 'modelinstance' must come before 'model'"

\* A plausible slip: the comparison the other way round.
ModelBackendValidate_Flipped(opts) ==
    LET mi == Index(opts.backends, "modelinstance")
        m == Index(opts.backends, "model")
    IN  IF mi = 0 \/ m = 0 THEN NotInstalled
        ELSE IF mi < m THEN WrongOrder ELSE "ok"

\* ModelBackend.validate: either index() raising ValueError gives the
\* "must be installed" exception.
ModelBackendValidate(opts) ==
    LET mi == Index(opts.backends, "modelinstance")
        m == Index(opts.backends, "model")
    IN  IF mi = 0 \/ m = 0 THEN NotInstalled
        ELSE IF mi > m THEN WrongOrder ELSE "ok"

\* MetadataBackend.validate: an empty body.
MetadataBackendValidate(opts) == "ok"

ValidateInit ==
    /\ options \in [use_sites : BOOLEAN, use_i18n : BOOLEAN,
                    use_subdomains : BOOLEAN, backends : BackendLists]
    /\ validated = ""
    /\ outcome = "none"

ValidateIdle ==
    /\ options = [use_sites |-> FALSE, use_i18n |-> FALSE,
                  use_subdomains |-> FALSE,
                  backends |-> <<"path", "modelinstance", "model", "view">>]
    /\ validated = ""
    /\ outcome = "none"

\* ModelBackend.validate(options)
ValidateModel ==
    /\ validated' = "model"
    /\ outcome' = ModelBackendValidate(options)
    /\ UNCHANGED <<options, resolveVars, pathVars, storeVars, queryVars,
                   schemaVars, handoffVars>>

\* validate(options) of a backend that inherits MetadataBackend.validate
ValidateDefault(b) ==
    /\ validated' = b
    /\ outcome' = MetadataBackendValidate(options)
    /\ UNCHANGED <<options, resolveVars, pathVars, storeVars, queryVars,
                   schemaVars, handoffVars>>

-----------------------------------------------------------------------------
(* Path canonicalization.  A path is a sequence of characters.             *)

\* The characters of the modelled paths, in code-point order.
CodePoints == <<" ", "%", "&", "+", ".", "/", "1", "2", "=", "?", "F",
                "a", "b", "c", "h", "x">>
Ord(c) == CHOOSE i \in DOMAIN CodePoints : CodePoints[i] = c

\* a < b for Python strings
RECURSIVE StrLess(_, _)
StrLess(a, b) ==
    IF b = <<>> THEN FALSE
    ELSE IF a = <<>> THEN TRUE
    ELSE IF Head(a) = Head(b) THEN StrLess(Tail(a), Tail(b))
    ELSE Ord(Head(a)) < Ord(Head(b))

\* The first position of character c in s, 0 when there is none.
Find(s, c) ==
    IF \E i \in 1..Len(s) : s[i] = c
    THEN CHOOSE i \in 1..Len(s) : s[i] = c /\ \A j \in 1..(i - 1) : s[j] # c
    ELSE 0

\* s.split(c)
RECURSIVE Split(_, _)
Split(s, c) ==
    LET i == Find(s, c)
    IN  IF i = 0 THEN <<s>>
        ELSE <<SubSeq(s, 1, i - 1)>> \o Split(SubSeq(s, i + 1, Len(s)), c)

\* c.join(parts)
RECURSIVE Join(_, _)
Join(parts, c) ==
    IF parts = <<>> THEN <<>>
    ELSE IF Len(parts) = 1 THEN parts[1]
    ELSE parts[1] \o <<c>> \o Join(Tail(parts), c)

\* urlparse(url): the path and query components (the modelled paths carry
\* no scheme, host, parameters or fragment).
UrlParse(url) ==
    LET q == Find(url, "?")
    IN  IF q = 0 THEN [path |-> url, query |-> <<>>]
        ELSE [path |-> SubSeq(url, 1, q - 1),
              query |-> SubSeq(url, q + 1, Len(url))]

\* parsed.geturl()
GetUrl(parsed) ==
    IF parsed.query = <<>> THEN parsed.path
    ELSE parsed.path \o <<"?">> \o parsed.query

\* A plausible slip: path + '/' instead of os.path.join.
PathJoin_AlwaysAppend(p) == p \o <<"/">>

\* os.path.join(p, '', '') for a non-empty p
PathJoin(p) == IF p[Len(p)] = "/" THEN p ELSE p \o <<"/">>

\* unquote_plus: '+' is a space and %2F a slash (the one escape the modelled
\* paths hold).
RECURSIVE UnquotePlus(_)
UnquotePlus(s) ==
    IF s = <<>> THEN <<>>
    ELSE IF Head(s) = "+" THEN <<" ">> \o UnquotePlus(Tail(s))
    ELSE IF Len(s) >= 3 /\ s[1] = "%" /\ s[2] = "2" /\ s[3] = "F"
         THEN <<"/">> \o UnquotePlus(SubSeq(s, 4, Len(s)))
    ELSE <<Head(s)>> \o UnquotePlus(Tail(s))

\* quote_plus: a space becomes '+', a slash %2F; letters, digits and '.' are
\* left alone (no other character occurs in a modelled key or value).
RECURSIVE QuotePlus(_)
QuotePlus(s) ==
    IF s = <<>> THEN <<>>
    ELSE (CASE Head(s) = " " -> <<"+">>
            [] Head(s) = "/" -> <<"%", "2", "F">>
            [] OTHER -> <<Head(s)>>) \o QuotePlus(Tail(s))

\* parse_qsl(qs): the (key, value) pairs of the fields that hold an '=' and
\* a non-blank value (keep_blank_values is off), unquoted, in order.
RECURSIVE ParseFields(_)
ParseFields(fields) ==
    IF fields = <<>> THEN <<>>
    ELSE LET nv == Head(fields)
             eq == Find(nv, "=")
         IN  (IF eq = 0 \/ eq = Len(nv) THEN <<>>
              ELSE << <<UnquotePlus(SubSeq(nv, 1, eq - 1)),
                        UnquotePlus(SubSeq(nv, eq + 1, Len(nv)))>> >>)
             \o ParseFields(Tail(fields))

ParseQsl(qs) == ParseFields(Split(qs, "&"))

\* Insert pair p behind every pair whose key is not greater than p's.
RECURSIVE SortedInsert(_, _)
SortedInsert(sorted, p) ==
    IF sorted = <<>> THEN <<p>>
    ELSE IF StrLess(p[1], Head(sorted)[1]) THEN <<p>> \o sorted
    ELSE <<Head(sorted)>> \o SortedInsert(Tail(sorted), p)

\* A plausible slip: the pairs are left in the order given.
SortByKey_Unsorted(pairs) == pairs

\* sorted(pairs, key=lambda tup: tup[0]): a stable sort on the key alone
RECURSIVE SortByKey(_)
SortByKey(pairs) ==
    IF pairs = <<>> THEN <<>>
    ELSE SortedInsert(SortByKey(SubSeq(pairs, 1, Len(pairs) - 1)),
                      pairs[Len(pairs)])

\* urlencode(pairs)
UrlEncode(pairs) ==
    Join([i \in 1..Len(pairs) |->
            QuotePlus(pairs[i][1]) \o <<"=">> \o QuotePlus(pairs[i][2])], "&")

\* The new self._path of PathMetadataBase.save: the slash is joined onto the
\* parsed path, but the parsed result is written back only inside the
\* branch that rewrites a query string.
SavePath(p) ==
    LET parsed == UrlParse(p)
        slashed == IF APPEND_SLASH /\ parsed.path # <<>>
                   THEN [parsed EXCEPT !.path = PathJoin(parsed.path)]
                   ELSE parsed
    IN  IF slashed.query # <<>>
        THEN GetUrl([slashed EXCEPT
                        !.query = UrlEncode(SortByKey(ParseQsl(slashed.query)))])
        ELSE p

\* The path MetadataNode.render hands to get_metadata for a string target:
\* the same steps as in save.
RenderPath(p) ==
    LET parsed == UrlParse(p)
        slashed == IF APPEND_SLASH /\ parsed.path # <<>>
                   THEN [parsed EXCEPT !.path = PathJoin(parsed.path)]
                   ELSE parsed
    IN  IF slashed.query # <<>>
        THEN GetUrl([slashed EXCEPT
                        !.query = UrlEncode(SortByKey(ParseQsl(slashed.query)))])
        ELSE p

\* ---- inputs ----

\* The most query fields a modelled path carries.
MaxParams == 2

PathComponents ==
    {<<>>, <<"/", "x">>, <<"/", "x", "/">>, <<"/", "x", ".", "h">>}

\* Query fields: plain pairs, a blank value, a field without '=', and for
\* each key a second value, one that needs quoting and one that is a space.
QueryFields ==
    {<<"a", "=", "1">>, <<"b", "=", "1">>, <<"b", "=">>, <<"c">>,
     <<"a", "=", "/">>, <<"b", "=", "+">>}

FieldLists == UNION {[1..n -> QueryFields] : n \in 0..MaxParams}

\* The path string made of a path component and query fields.
BuildPath(p) ==
    IF p.segs = <<>> THEN p.comp
    ELSE p.comp \o <<"?">> \o Join(p.segs, "&")

\* The orders in which the same query fields can be written.
Reorderings(segs) ==
    {[i \in 1..Len(segs) |-> segs[perm[i]]] :
        perm \in Permutations(1..Len(segs))}

NoPath == [comp |-> <<>>, segs |-> <<>>]

\* The requests modelled: the record's path component with the record's
\* query fields in any order.
Targets == [comp : {supplied.comp}, segs : Reorderings(supplied.segs)]

PathInit ==
    /\ APPEND_SLASH \in BOOLEAN
    /\ supplied \in [comp : PathComponents, segs : FieldLists]
    /\ path_attr = BuildPath(supplied)
    /\ db_path = [saved |-> FALSE, path |-> <<>>]
    /\ saves = "unsaved"
    /\ first_saved = <<>>
    /\ target = NoPath
    /\ lookup_path = [done |-> FALSE, path |-> <<>>]
    /\ found = FALSE

PathIdle ==
    /\ APPEND_SLASH = TRUE
    /\ supplied = NoPath
    /\ path_attr = <<>>
    /\ db_path = [saved |-> FALSE, path |-> <<>>]
    /\ saves = "unsaved"
    /\ first_saved = <<>>
    /\ target = NoPath
    /\ lookup_path = [done |-> FALSE, path |-> <<>>]
    /\ found = FALSE

\* PathMetadataBase.save: canonicalize self._path, then persist the record.
Save ==
    /\ path_attr' = SavePath(path_attr)
    /\ db_path' = [saved |-> TRUE, path |-> path_attr']
    /\ saves' = IF saves = "unsaved" THEN "saved" ELSE "resaved"
    /\ first_saved' = IF saves = "unsaved" THEN path_attr' ELSE first_saved
    /\ UNCHANGED <<APPEND_SLASH, supplied, target, lookup_path, found>>
    /\ UNCHANGED <<resolveVars, validateVars, storeVars, queryVars, schemaVars,
                   handoffVars>>

\* MetadataNode.render for a string target, down to PathBackend's
\* get_instances: queryset.filter(_path=path).
Render(t) ==
    /\ target' = t
    /\ lookup_path' = [done |-> TRUE, path |-> RenderPath(BuildPath(t))]
    /\ found' = (db_path.saved /\ db_path.path = lookup_path'.path)
    /\ UNCHANGED <<APPEND_SLASH, supplied, path_attr, db_path, saves,
                   first_saved>>
    /\ UNCHANGED <<resolveVars, validateVars, storeVars, queryVars, schemaVars,
                   handoffVars>>

-----------------------------------------------------------------------------
(* Uniqueness and the ModelInstance record's save                          *)

NULL == "NULL"
\* The value of an axis field on a record whose schema has no such field.
NoField == "n/a"

\* The backends' declared unique_together.
UniqueTogether ==
    [b \in BackendNames |->
        CASE b = "path" -> << <<"_path">> >>
          [] b = "view" -> << <<"_view">> >>
          [] b = "modelinstance" ->
               << <<"_path">>, <<"_content_type", "_object_id">> >>
          [] b = "model" -> << <<"_content_type">> >>]

\* A plausible slip: the axis fields appended to the first declared tuple
\* only.
GetUniqueTogether_FirstOnly(b, opts) ==
    [i \in DOMAIN UniqueTogether[b] |->
        IF i = 1
        THEN UniqueTogether[b][i]
                \o (IF opts.use_sites THEN <<"_site">> ELSE <<>>)
                \o (IF opts.use_i18n THEN <<"_language">> ELSE <<>>)
                \o (IF opts.use_subdomains THEN <<"_subdomain">> ELSE <<>>)
        ELSE UniqueTogether[b][i]]

\* MetadataBackend.get_unique_together(options)
GetUniqueTogether(b, opts) ==
    [i \in DOMAIN UniqueTogether[b] |->
        UniqueTogether[b][i]
            \o (IF opts.use_sites THEN <<"_site">> ELSE <<>>)
            \o (IF opts.use_i18n THEN <<"_language">> ELSE <<>>)
            \o (IF opts.use_subdomains THEN <<"_subdomain">> ELSE <<>>)]

\* The fields of tuple ut as a set.
FieldsOf(ut) == {ut[i] : i \in DOMAIN ut}

\* Whether the database rejects row r next to the rows in others: some
\* derived unique_together tuple has equal values in r and in another row.
\* The axis columns are declared null=True; whether two NULLs count as equal
\* in a unique constraint is the database's choice (db_nulls_distinct).
UniqueViolation(b, opts, nullsDistinct, r, others) ==
    \E o \in others :
        \E i \in DOMAIN GetUniqueTogether(b, opts) :
            LET fs == FieldsOf(GetUniqueTogether(b, opts)[i])
            IN  /\ \A f \in fs : o[f] = r[f]
                /\ nullsDistinct => \A f \in fs : r[f] # NULL

\* The most rows a modelled table holds.
MaxRows == 2

NoUrl == "no get_absolute_url"

\* The objects a ModelInstance record can be linked to: two of one model
\* that has get_absolute_url, one of a model that has none.
ContentObjects ==
    {[ct |-> "ct1", id |-> "1", url |-> "/a/"],
     [ct |-> "ct1", id |-> "2", url |-> "/b/"],
     [ct |-> "ct2", id |-> "1", url |-> NoUrl]}

\* The values an axis field can hold under the options.
AxisValues(enabled, values) == IF enabled THEN {NULL} \cup values ELSE {NoField}

StoreAxes(opts) ==
    [_site : AxisValues(opts.use_sites, {"site1"}),
     _language : AxisValues(opts.use_i18n, {"en"}),
     _subdomain : AxisValues(opts.use_subdomains, {"shop"})]

\* The in-memory ModelInstance record linked to obj with the given axes.
MIRecord(pk, path, obj, axes) ==
    [pk |-> pk, _path |-> path, _content_type |-> obj.ct, _object_id |-> obj.id,
     _site |-> axes._site, _language |-> axes._language,
     _subdomain |-> axes._subdomain,
     _all_subdomains |-> IF axes._subdomain = NoField THEN NoField ELSE FALSE]

\* self._path after the first try block of save: the linked object's
\* get_absolute_url() when it has one, else what the record held.
DerivedPath(path, obj) == IF obj.url # NoUrl THEN obj.url ELSE path

NextPk(rows) ==
    IF rows = {} THEN 1
    ELSE 1 + (CHOOSE n \in {r.pk : r \in rows} : \A r \in rows : r.pk <= n)

StoreInit ==
    /\ mi_table = {}
    /\ db_nulls_distinct \in BOOLEAN
    /\ save_outcome = "none"

StoreIdle ==
    /\ mi_table = {}
    /\ db_nulls_distinct = TRUE
    /\ save_outcome = "none"

\* ModelInstanceMetadataBase.save of a record not yet persisted:
\* derive _path, then INSERT, swallowing IntegrityError.
SaveNew(obj, axes) ==
    LET r == MIRecord(NextPk(mi_table), DerivedPath("", obj), obj, axes)
    IN  /\ Cardinality(mi_table) < MaxRows
        /\ IF UniqueViolation("modelinstance", options, db_nulls_distinct,
                              r, mi_table)
           THEN /\ save_outcome' = "swallowed"
                /\ UNCHANGED mi_table
           ELSE /\ save_outcome' = "saved"
                /\ mi_table' = mi_table \cup {r}
        /\ UNCHANGED <<db_nulls_distinct, resolveVars, validateVars, pathVars,
                       queryVars, schemaVars, handoffVars>>

\* ModelInstanceMetadataBase.save of a persisted record whose link or axes
\* were changed in memory: derive _path, then UPDATE, swallowing
\* IntegrityError.
SaveExisting(row, obj, axes) ==
    LET r == MIRecord(row.pk, DerivedPath(row._path, obj), obj, axes)
    IN  /\ row \in mi_table
        /\ IF UniqueViolation("modelinstance", options, db_nulls_distinct,
                              r, mi_table \ {row})
           THEN /\ save_outcome' = "swallowed"
                /\ UNCHANGED mi_table
           ELSE /\ save_outcome' = "saved"
                /\ mi_table' = (mi_table \ {row}) \cup {r}
        /\ UNCHANGED <<db_nulls_distinct, resolveVars, validateVars, pathVars,
                       queryVars, schemaVars, handoffVars>>

-----------------------------------------------------------------------------
(* The manager's by_params                                                 *)

\* settings.SITE_ID
SITE_ID == "site1"

QueryAxes(opts) ==
    [_site : AxisValues(opts.use_sites, {"site1", "site2"}),
     _language : AxisValues(opts.use_i18n, {"en"}),
     _subdomain : AxisValues(opts.use_subdomains, {"shop", "blog"}),
     _all_subdomains : IF opts.use_subdomains THEN BOOLEAN ELSE {NoField}]

\* The rows a backend's table can hold for one path under the options.
QueryRows(opts) ==
    {[_path |-> "/a/", _site |-> a._site, _language |-> a._language,
      _subdomain |-> a._subdomain, _all_subdomains |-> a._all_subdomains] :
        a \in QueryAxes(opts)}

\* The tables of at most MaxRows rows that satisfy the Path backend's
\* derived unique_together in every database.
QueryTables(opts) ==
    {t \in UNION {{ {f[i] : i \in 1..n} : f \in [1..n -> QueryRows(opts)]} :
                    n \in 0..MaxRows} :
        \A r \in t : ~UniqueViolation("path", opts, FALSE, r, t \ {r})}

\* The requests' arguments; None stands for an argument not given.
None == "None"
\* A site argument is None, a Site object (named by its id) or the domain
\* of a site as text; the sites table holds site1 and site2.
SiteDomains == [d \in {"two.example"} |-> "site2"]
UnknownDomain == "gone.example"
QuerySites == {None, "site1", "site2", "two.example", UnknownDomain}
QueryLanguages == {None, "en", "fr"}
QuerySubdomains == {None, "shop", "blog"}

\* Site.objects.get(domain=site) finds no site: DoesNotExist is raised.
\* _Manager's by_params never looks a site up when the site axis is off.
DoesNotExist(opts, site) == opts.use_sites /\ site = UnknownDomain

\* The site_id on_current_site filters by: the Site's id, the id of the
\* site with the given domain, or settings.SITE_ID when site is None.
SiteId(site) ==
    CASE site = None -> SITE_ID
      [] site \in DOMAIN SiteDomains -> SiteDomains[site]
      [] OTHER -> site

\* A plausible slip: the NULL alternative of the where clause left out.
OnCurrentSite_OnlyEqual(rows, site) ==
    {r \in rows : r._site = SiteId(site)}

\* BaseManager.on_current_site(site):
\* where = ['_site_id IS NULL OR _site_id=%s'], params=[site_id]
OnCurrentSite(rows, site) ==
    {r \in rows : r._site = NULL \/ r._site = SiteId(site)}

\* The rows by_params selects.  _Manager overrides by_params to skip
\* on_current_site when the site axis is off.
ByParamsRows(opts, rows, site, language, subdomain) ==
    LET scoped == IF opts.use_sites THEN OnCurrentSite(rows, site) ELSE rows
        spoken == IF language # None
                  THEN {r \in scoped : r._language = language}
                  ELSE scoped
    IN  IF subdomain # None
        THEN {r \in spoken : r._subdomain = subdomain \/ r._all_subdomains = TRUE}
        ELSE spoken

\* Whether sequence q respects order_by('_all_subdomains'), which by_params
\* applies when a subdomain is given: False sorts before True.  Rows with
\* equal sort keys come in an order the database chooses.
OrderedBy(subdomain, q) ==
    subdomain # None =>
        \A i, j \in DOMAIN q :
            (i < j) => ~(q[i]._all_subdomains = TRUE /\ q[j]._all_subdomains = FALSE)

\* The sequences that list every row of set S once.
Orderings(S) ==
    {q \in [1..Cardinality(S) -> S] : \A r \in S : \E i \in DOMAIN q : q[i] = r}

\* Filtering on a field the schema does not have raises FieldError.
FieldError(opts, language, subdomain) ==
    \/ language # None /\ ~opts.use_i18n
    \/ subdomain # None /\ ~opts.use_subdomains

QueryInit ==
    /\ path_table \in QueryTables(options)
    /\ query = [made |-> FALSE, site |-> None, language |-> None,
                subdomain |-> None]
    /\ query_error = FALSE
    /\ queryset = <<>>

QueryIdle ==
    /\ path_table = {}
    /\ query = [made |-> FALSE, site |-> None, language |-> None,
                subdomain |-> None]
    /\ query_error = FALSE
    /\ queryset = <<>>

\* objects.by_params(site, language, subdomain), evaluated.  The call reads
\* the table and leaves it as it is, so a behaviour follows one call: a
\* second call would start from the same table as the first.
ByParams(site, language, subdomain) ==
    /\ ~query.made
    /\ query' = [made |-> TRUE, site |-> site, language |-> language,
                 subdomain |-> subdomain]
    /\ IF DoesNotExist(options, site) \/ FieldError(options, language, subdomain)
       THEN /\ query_error' = TRUE
            /\ queryset' = <<>>
       ELSE /\ query_error' = FALSE
            /\ queryset' \in
                 {q \in Orderings(ByParamsRows(options, path_table, site,
                                              language, subdomain)) :
                     OrderedBy(subdomain, q)}
    /\ UNCHANGED <<path_table, resolveVars, validateVars, pathVars, storeVars,
                   schemaVars, handoffVars>>

-----------------------------------------------------------------------------
(* get_model(options): the model class of a backend and its Meta           *)

\* The axis flags of an Options object.
OptionFlags == [use_sites : BOOLEAN, use_i18n : BOOLEAN, use_subdomains : BOOLEAN]

\* The Meta of a model class: none before get_model built the class.
Unbuilt == [built |-> FALSE, unique_together |-> <<>>]
Meta(ut) == [built |-> TRUE, unique_together |-> ut]
NoCall ==
    [backend |-> "",
     options |-> [use_sites |-> FALSE, use_i18n |-> FALSE,
                  use_subdomains |-> FALSE]]

SchemaInit ==
    /\ unique_together = UniqueTogether
    /\ meta = [b \in BackendNames |-> Unbuilt]
    /\ built = NoCall

SchemaIdle == SchemaInit

\* backend.get_model(options): the class body evaluates
\* Meta.unique_together = self.get_unique_together(options), which copies
\* each declared tuple into a list of its own before appending to it and
\* assigns nothing to self.unique_together.  A metadata definition builds
\* each backend's class once; every definition builds its own, with its
\* own options.
GetModel(b, opts) ==
    /\ meta' = [meta EXCEPT ![b] = Meta(GetUniqueTogether(b, opts))]
    /\ built' = [backend |-> b, options |-> opts]
    /\ UNCHANGED unique_together
    /\ UNCHANGED <<resolveVars, validateVars, pathVars, storeVars, queryVars,
                   handoffVars>>

-----------------------------------------------------------------------------
(* One resolution's context: ModelInstance's _process_context writes it,   *)
(* the Model backend's get_instances reads it                              *)

Absent == "absent"

\* context['view_context'], by what its 'object' is: no view_context key,
\* a view context without an object, or one whose object is of the model
\* with the named content type.
ViewContexts == {Absent, "no object", "ct1", "ct2"}

\* The context a resolution starts with: None (the default of the manager's
\* get_instances) or a dict holding at most a view_context; the dict with
\* no view_context is the empty dict.
StartContexts ==
    [none : {TRUE}, content_type : {Absent}, model_instance : {0},
     view_context : {Absent}]
    \cup [none : {FALSE}, content_type : {Absent}, model_instance : {0},
          view_context : ViewContexts]

\* "not context": None or the empty dict.
Falsy(c) ==
    \/ c.none
    \/ c.content_type = Absent /\ c.model_instance = 0 /\ c.view_context = Absent

\* The options of the hand-off specification: the site axis on or off.
HandoffOptions ==
    [use_sites : BOOLEAN, use_i18n : {FALSE}, use_subdomains : {FALSE},
     backends : {<<"path", "modelinstance", "model", "view">>}]

\* The objects the persisted ModelInstance records are linked to.
LinkedObjects ==
    {[pk |-> 1, ct |-> "ct1", id |-> "1", url |-> "/a/"],
     [pk |-> 2, ct |-> "ct1", id |-> "2", url |-> "/b/"],
     [pk |-> 3, ct |-> "ct2", id |-> "1", url |-> "/c/"]}

\* The axis fields of a record that applies to every site.
GeneralAxes(opts) ==
    [_site |-> IF opts.use_sites THEN NULL ELSE NoField,
     _language |-> NoField, _subdomain |-> NoField]

\* The ModelInstance tables: one saved record for each of up to MaxRows
\* linked objects, at least one.
MatchTables(opts) ==
    {{MIRecord(o.pk, DerivedPath("", o), o, GeneralAxes(opts)) : o \in S} :
        S \in {T \in SUBSET LinkedObjects : Cardinality(T) \in 1..MaxRows}}

\* The rows a Model backend's table can hold under the options.
ModelRows(opts) ==
    {[_content_type |-> ct, _site |-> st, _language |-> NoField,
      _subdomain |-> NoField, _all_subdomains |-> NoField] :
        ct \in {"ct1", "ct2"},
        st \in AxisValues(opts.use_sites, {"site1", "site2"})}

\* The Model tables of at most MaxRows rows that satisfy the derived
\* unique_together in every database.
ModelTables(opts) ==
    {t \in SUBSET ModelRows(opts) :
        /\ Cardinality(t) <= MaxRows
        /\ \A r \in t : ~UniqueViolation("model", opts, FALSE, r, t \ {r})}

HandoffSites == {None, "site2"}

\* What get_instances returned: None, or a queryset of rows.
NoCandidates == [returned |-> "None", rows |-> {}]
Candidates(rows) == [returned |-> "queryset", rows |-> rows]

\* A plausible slip: the object in view_context consulted before the
\* content_type key.
ModelGetInstances_ViewFirst(qs, c) ==
    IF Falsy(c) THEN NoCandidates
    ELSE LET content_type ==
                 IF c.view_context \in {"ct1", "ct2"} THEN c.view_context
                 ELSE c.content_type
         IN  IF content_type # Absent
             THEN Candidates({r \in qs : r._content_type = content_type})
             ELSE NoCandidates

\* ModelBackend.get_instances(queryset, path, context), qs being the
\* queryset's rows
ModelGetInstances(qs, c) ==
    IF Falsy(c) THEN NoCandidates
    ELSE LET content_type ==
                 IF c.content_type # Absent THEN c.content_type
                 ELSE IF c.view_context \in {"ct1", "ct2"}
                      \* ContentType.objects.get_for_model(instance)
                      THEN c.view_context
                      ELSE Absent
         IN  IF content_type # Absent
             THEN Candidates({r \in qs : r._content_type = content_type})
             ELSE NoCandidates

NotRun ==
    [ran |-> FALSE, site |-> None,
     context |-> [none |-> TRUE, content_type |-> Absent, model_instance |-> 0,
                  view_context |-> Absent],
     returned |-> "None", rows |-> {}]

HandoffInit ==
    /\ shared_context \in StartContexts
    /\ matched = [pk |-> 0, raised |-> FALSE]
    /\ candidates = NotRun

HandoffIdle ==
    /\ shared_context = [none |-> TRUE, content_type |-> Absent,
                         model_instance |-> 0, view_context |-> Absent]
    /\ matched = [pk |-> 0, raised |-> FALSE]
    /\ candidates = NotRun

\* The ModelInstance backend matched record row for the request
\* (_Manager.get_instances: by_params(...).filter(_path=path)) and the
\* resolution runs row._process_context(context).  On None, context.get
\* raises AttributeError.
ModelInstanceProcessContext(row, site) ==
    /\ row \in ByParamsRows(options, mi_table, site, None, None)
    /\ IF shared_context.none
       THEN /\ matched' = [pk |-> row.pk, raised |-> TRUE]
            /\ UNCHANGED shared_context
       ELSE /\ matched' = [pk |-> row.pk, raised |-> FALSE]
            /\ shared_context' =
                  [shared_context EXCEPT !.content_type = row._content_type,
                                         !.model_instance = row.pk]
    /\ UNCHANGED candidates
    /\ UNCHANGED <<resolveVars, validateVars, pathVars, storeVars, queryVars,
                   schemaVars>>

\* The Model backend's manager.get_instances(path, site, context=context):
\* by_params, then ModelBackend.get_instances on the queryset.
ManagerGetInstances(site) ==
    /\ candidates' =
          [ran |-> TRUE, site |-> site, context |-> shared_context]
          @@ ModelGetInstances(ByParamsRows(options, path_table, site, None, None),
                               shared_context)
    /\ UNCHANGED <<shared_context, matched>>
    /\ UNCHANGED <<resolveVars, validateVars, pathVars, storeVars, queryVars,
                   schemaVars>>

-----------------------------------------------------------------------------
(* Specifications                                                          *)

Init ==
    ResolveInit /\ ValidateIdle /\ PathIdle /\ StoreIdle /\ QueryIdle
        /\ SchemaIdle /\ HandoffIdle

Next ==
    \/ \E c \in Contexts : ProcessContext(c)
    \/ \E name \in Names : Resolve(name)

Spec == Init /\ [][Next]_vars

InitValidate ==
    ResolveIdle /\ ValidateInit /\ PathIdle /\ StoreIdle /\ QueryIdle
        /\ SchemaIdle /\ HandoffIdle

NextValidate ==
    \/ ValidateModel
    \/ \E b \in BackendNames \ {"model"} : ValidateDefault(b)

SpecValidate == InitValidate /\ [][NextValidate]_vars

InitPath ==
    ResolveIdle /\ ValidateIdle /\ PathInit /\ StoreIdle /\ QueryIdle
        /\ SchemaIdle /\ HandoffIdle

NextPath ==
    \/ Save
    \/ \E t \in Targets : Render(t)

SpecPath == InitPath /\ [][NextPath]_vars

\* The options of the store and query specifications: any axis flags.
OptionsInit ==
    /\ options \in [use_sites : BOOLEAN, use_i18n : BOOLEAN,
                    use_subdomains : BOOLEAN,
                    backends : {<<"path", "modelinstance", "model", "view">>}]
    /\ validated = ""
    /\ outcome = "none"

InitStore ==
    ResolveIdle /\ OptionsInit /\ PathIdle /\ StoreInit /\ QueryIdle
        /\ SchemaIdle /\ HandoffIdle

NextStore ==
    \/ \E obj \in ContentObjects : \E axes \in StoreAxes(options) :
          SaveNew(obj, axes)
    \/ \E row \in mi_table : \E obj \in ContentObjects :
          \E axes \in StoreAxes(options) : SaveExisting(row, obj, axes)

SpecStore == InitStore /\ [][NextStore]_vars

InitQuery ==
    ResolveIdle /\ OptionsInit /\ PathIdle /\ StoreIdle /\ QueryInit
        /\ SchemaIdle /\ HandoffIdle

NextQuery ==
    \E site \in QuerySites : \E language \in QueryLanguages :
        \E subdomain \in QuerySubdomains : ByParams(site, language, subdomain)

SpecQuery == InitQuery /\ [][NextQuery]_vars

InitSchema ==
    ResolveIdle /\ ValidateIdle /\ PathIdle /\ StoreIdle /\ QueryIdle
        /\ SchemaInit /\ HandoffIdle

NextSchema == \E b \in BackendNames : \E opts \in OptionFlags : GetModel(b, opts)

SpecSchema == InitSchema /\ [][NextSchema]_vars

InitHandoff ==
    /\ ResolveIdle /\ PathIdle /\ SchemaIdle
    /\ options \in HandoffOptions /\ validated = "" /\ outcome = "none"
    /\ mi_table \in MatchTables(options)
    /\ db_nulls_distinct = TRUE /\ save_outcome = "none"
    /\ path_table \in ModelTables(options)
    /\ query = [made |-> FALSE, site |-> None, language |-> None,
                subdomain |-> None]
    /\ query_error = FALSE /\ queryset = <<>>
    /\ HandoffInit

NextHandoff ==
    \/ \E row \in mi_table : \E site \in HandoffSites :
          ModelInstanceProcessContext(row, site)
    \/ \E site \in HandoffSites : ManagerGetInstances(site)

SpecHandoff == InitHandoff /\ [][NextHandoff]_vars

-----------------------------------------------------------------------------
(* Claims about value resolution                                           *)

RequestedField == pc # "idle" /\ req_name \in Fields

\* C1  Resolution precedence: a declared editable field with a non-empty
\* stored value resolves (before template substitution) to that stored
\* value, whatever its populate-from is; the call returns and the
\* populate-from source plays no part.
C1_StoredValueWins ==
    (RequestedField /\ elements[req_name].editable
        /\ stored[req_name].t = "str" /\ stored[req_name].s # <<>>)
    => (pc = "returned" /\ base_result = stored[req_name])

C1_Witness ==
    /\ RequestedField /\ pc = "returned"
    /\ elements[req_name].editable
    /\ stored[req_name] = Str(<<"{{v}}">>)
    /\ elements[req_name].populate_from.k = "callable"
    /\ base_result = Str(<<"{{v}}">>)

\* The keyword arguments each record class passes to a populate-from
\* callable, as the specification lists them.
C2_ExpectedKwargs ==
    CASE variant = "path" -> <<"path", "/x/">>
      [] variant = "view" -> <<"view_name", "home">>
      [] variant = "modelinstance" -> <<"model_instance", "product">>
      [] variant = "model" -> <<"content_type", "ct1">>

\* C2  Populate-from fallback: a declared field whose stored value is None
\* or '' and whose populate-from is a callable resolves (before template
\* substitution) to the callable's result for the record and the variant's
\* keyword arguments, never to the empty stored value.
C2_CallableFallback ==
    (RequestedField
        /\ (stored[req_name] = NoneV \/ stored[req_name] = Str(<<>>))
        /\ elements[req_name].populate_from.k = "callable")
    => (/\ pc = "returned"
        /\ base_result =
              Str(<<elements[req_name].populate_from.name>> \o C2_ExpectedKwargs))

C2_Witness ==
    /\ RequestedField /\ pc = "returned"
    /\ elements[req_name].editable
    /\ stored[req_name] = Str(<<>>)
    /\ elements[req_name].populate_from.k = "callable"
    /\ variant = "modelinstance"
    /\ base_result = Str(<<"fn", "model_instance", "product">>)

\* C3  Alias equals target: when field A has no non-empty stored value and
\* A's populate-from names declared field B, _resolve_value(A) returns
\* exactly what _resolve_value(B) returns on the same record and context.
C3_AliasEqualsTarget ==
    (RequestedField /\ pc = "returned"
        /\ ~(elements[req_name].editable /\ stored[req_name].t = "str"
                /\ stored[req_name].s # <<>>)
        /\ elements[req_name].populate_from.k = "alias"
        /\ elements[req_name].populate_from.name \in Fields)
    => result = ResolveValue(elements[req_name].populate_from.name, 1,
                             view_context).value

\* C4  Alias resolution terminates: with empty stored values, resolving any
\* declared field returns a value, however the populate-from aliases are
\* assigned (chains, and aliases that lead back to themselves).
C4_AliasResolutionReturns ==
    (RequestedField
        /\ \A f \in Fields : stored[f] = NoneV \/ stored[f] = Str(<<>>))
    => pc = "returned"

-----------------------------------------------------------------------------
(* Claims about validate(options)                                          *)

\* C5  Backend ordering: ModelBackend.validate fails when 'model' comes
\* before 'modelinstance' in options.backends or 'modelinstance' is absent,
\* and succeeds when 'modelinstance' comes earlier than 'model'; the
\* validate of every other backend never fails.
C5_BackendOrdering ==
    LET bs == options.backends
        modelFirst == \E i, j \in DOMAIN bs :
                         i < j /\ bs[i] = "model" /\ bs[j] = "modelinstance"
        instanceFirst == \E i, j \in DOMAIN bs :
                            i < j /\ bs[i] = "modelinstance" /\ bs[j] = "model"
        instanceAbsent == \A i \in DOMAIN bs : bs[i] # "modelinstance"
    IN  /\ (validated = "model" /\ (modelFirst \/ instanceAbsent))
              => outcome \in {NotInstalled, WrongOrder}
        /\ (validated = "model" /\ instanceFirst) => outcome = "ok"
        /\ (validated \in BackendNames \ {"model"}) => outcome = "ok"

C5_Witness ==
    /\ validated = "model"
    /\ options.backends = <<"model", "modelinstance">>
    /\ outcome = WrongOrder

-----------------------------------------------------------------------------
(* Claims about the ModelInstance record's save                            *)

\* C6  Duplicate save swallow: after any sequence of saves the table holds
\* at most one row per unique key (path plus enabled axes, and content type
\* and object id plus enabled axes): two records saved with identical
\* derived keys leave exactly one row.
C6_OneRowPerUniqueKey ==
    \A r1, r2 \in mi_table :
        r1 # r2 =>
            \A i \in DOMAIN GetUniqueTogether("modelinstance", options) :
                \E f \in FieldsOf(GetUniqueTogether("modelinstance", options)[i]) :
                    r1[f] # r2[f]

-----------------------------------------------------------------------------
(* Claims about path canonicalization                                      *)

\* C7  Canonicalization idempotence: saving a Path record whose path was
\* already canonicalized by a save leaves the path as it was.
C7_Idempotent ==
    saves = "resaved" => (path_attr = first_saved /\ db_path.path = first_saved)

C7_Witness ==
    /\ saves = "resaved"
    /\ APPEND_SLASH
    /\ supplied = [comp |-> <<"/", "x">>,
                   segs |-> << <<"b", "=", "1">>, <<"a", "=", "/">> >>]
    /\ path_attr = <<"/", "x", "/", "?", "a", "=", "%", "2", "F", "&",
                     "b", "=", "1">>

\* The key of a query field as written: the text before its first '='.
FieldKey(field) ==
    IF Find(field, "=") = 0 THEN field
    ELSE SubSeq(field, 1, Find(field, "=") - 1)

\* A request that carries the record's path component and the record's
\* query fields in another order.
Reordered ==
    /\ saves # "unsaved"
    /\ lookup_path.done
    /\ target.comp = supplied.comp
    /\ target.segs # supplied.segs

\* The fields that share a key are written in the same relative order in
\* the record's path and in the request's.
SameOrderPerKey ==
    \A i \in DOMAIN supplied.segs :
        LET k == FieldKey(supplied.segs[i])
            sameKey(f) == FieldKey(f) = k
        IN  SelectSeq(supplied.segs, sameKey) = SelectSeq(target.segs, sameKey)

\* C8 as stated: two paths with one path component and the same key-value
\* pairs in different orders canonicalize to the identical string, so the
\* request finds the stored record.
C8_OrderInsensitive ==
    Reordered => lookup_path.path = db_path.path

\* C8 as amended: the same, for pairs that keep their relative order
\* whenever they share a key (so whenever no key is repeated).
C8_OrderInsensitivePerKey ==
    (Reordered /\ SameOrderPerKey) => lookup_path.path = db_path.path

C8_Witness ==
    /\ Reordered /\ SameOrderPerKey
    /\ supplied.segs = << <<"b", "=", "1">>, <<"a", "=", "1">> >>
    /\ target.segs = << <<"a", "=", "1">>, <<"b", "=", "1">> >>
    /\ lookup_path.path = db_path.path
    /\ found

\* A path component that is not empty, does not end in a slash and does not
\* end in a filename.
NeedsSlash(comp) ==
    /\ comp # <<>>
    /\ comp[Len(comp)] # "/"
    /\ \A i \in DOMAIN comp : comp[i] # "."

EndsInSlash(path) ==
    LET comp == UrlParse(path).path
    IN  comp # <<>> /\ comp[Len(comp)] = "/"

\* C9  Trailing slash: with APPEND_SLASH on, a path whose path component
\* ends neither in a slash nor in a filename is canonicalized to one whose
\* path component ends in a slash, with or without a query string, both in
\* the path a save stores and in the path the template tag looks up.
C9_TrailingSlash ==
    APPEND_SLASH =>
        /\ (saves # "unsaved" /\ NeedsSlash(supplied.comp))
              => (EndsInSlash(path_attr) /\ EndsInSlash(db_path.path))
        /\ (lookup_path.done /\ NeedsSlash(target.comp))
              => EndsInSlash(lookup_path.path)

-----------------------------------------------------------------------------
(* Claims about by_params                                                  *)

\* C10  Subdomain visibility and tie-break: for a request with subdomain s,
\* by_params returns exactly the records otherwise in scope whose
\* _subdomain is s or whose _all_subdomains is true, and every returned
\* record that matches s exactly comes before every returned record that is
\* visible only through _all_subdomains.
C10_SubdomainTieBreak ==
    (query.made /\ ~query_error /\ query.subdomain # None) =>
        LET s == query.subdomain
            inScope == ByParamsRows(options, path_table, query.site,
                                    query.language, None)
        IN  /\ {queryset[i] : i \in DOMAIN queryset} =
                  {r \in inScope : r._subdomain = s \/ r._all_subdomains = TRUE}
            /\ Len(queryset) = Cardinality({queryset[i] : i \in DOMAIN queryset})
            /\ \A i, j \in DOMAIN queryset :
                  (queryset[i]._subdomain = s /\ queryset[j]._subdomain # s)
                      => i < j

\* The site a request asks for: the configured default site when none is
\* given, the site a domain belongs to, else the Site passed.
C11_RequestedSite ==
    CASE query.site = None -> "site1"
      [] query.site = "two.example" -> "site2"
      [] OTHER -> query.site

\* C11  Site visibility: with the site axis enabled, a returned record has
\* a null _site or the requested site's, and when nothing else narrows the
\* request (no language, no subdomain) a stored record is returned iff its
\* _site is null or equals the requested site.
C11_SiteVisibility ==
    (query.made /\ ~query_error /\ options.use_sites) =>
        LET returned == {queryset[i] : i \in DOMAIN queryset}
            visible(r) == r._site = NULL \/ r._site = C11_RequestedSite
        IN  /\ \A r \in returned : r \in path_table /\ visible(r)
            /\ (query.language = None /\ query.subdomain = None)
                  => returned = {r \in path_table : visible(r)}

C11_Witness ==
    /\ query.made /\ ~query_error /\ options.use_sites
    /\ query.site = "site2" /\ query.language = None /\ query.subdomain = None
    /\ \E r1, r2 \in path_table : r1._site = NULL /\ r2._site = "site1"
    /\ Len(queryset) = 1 /\ queryset[1]._site = NULL

-----------------------------------------------------------------------------
(* Claims about the derived unique_together                                *)

\* The axis fields the options enable, in the order _site, _language,
\* _subdomain.
C12_EnabledAxes(opts) ==
    LET enabled(f) == \/ f = "_site" /\ opts.use_sites
                      \/ f = "_language" /\ opts.use_i18n
                      \/ f = "_subdomain" /\ opts.use_subdomains
    IN  SelectSeq(<<"_site", "_language", "_subdomain">>, enabled)

\* The unique_together each backend declares, as the source lists them.
C12_Declared ==
    [b \in {"path", "view", "modelinstance", "model"} |->
        IF b = "path" THEN << <<"_path">> >>
        ELSE IF b = "view" THEN << <<"_view">> >>
        ELSE IF b = "model" THEN << <<"_content_type">> >>
        ELSE << <<"_path">>, <<"_content_type", "_object_id">> >>]

\* C12  Uniqueness derivation: for every backend and every combination of
\* the axis flags, get_unique_together returns one tuple per declared
\* tuple, in the declared order, each the declared fields followed by
\* exactly the enabled axis fields in the order _site, _language,
\* _subdomain; the backend's declared unique_together stays as declared.
C12_UniquenessDerivation ==
    built.backend # "" =>
        LET b == built.backend
            axes == C12_EnabledAxes(built.options)
            ut == meta[b].unique_together
        IN  /\ Len(ut) = Len(C12_Declared[b])
            /\ \A i \in DOMAIN ut :
                  /\ Len(ut[i]) = Len(C12_Declared[b][i]) + Len(axes)
                  /\ SubSeq(ut[i], 1, Len(C12_Declared[b][i])) = C12_Declared[b][i]
                  /\ SubSeq(ut[i], Len(C12_Declared[b][i]) + 1, Len(ut[i])) = axes
            /\ unique_together = C12_Declared

C12_Witness ==
    /\ built = [backend |-> "modelinstance",
                options |-> [use_sites |-> TRUE, use_i18n |-> FALSE,
                             use_subdomains |-> TRUE]]
    /\ meta["modelinstance"].unique_together =
          << <<"_path", "_site", "_subdomain">>,
             <<"_content_type", "_object_id", "_site", "_subdomain">> >>
    /\ meta["model"].unique_together = << <<"_content_type", "_language">> >>

-----------------------------------------------------------------------------
(* Claims about the language axis of by_params                             *)

\* C13  Language-null visibility: among the records otherwise in scope,
\* by_params returns every record whose _language is null, whatever
\* language is requested and when none is, and returns a record whose
\* _language is set only if it equals the requested language.
C13_LanguageNullVisibility ==
    (query.made /\ ~query_error /\ options.use_i18n) =>
        LET returned == {queryset[i] : i \in DOMAIN queryset}
            inScope == ByParamsRows(options, path_table, query.site, None,
                                    query.subdomain)
        IN  /\ \A r \in inScope : r._language = NULL => r \in returned
            /\ \A r \in returned :
                  (r._language # NULL /\ query.language # None)
                      => r._language = query.language

-----------------------------------------------------------------------------
(* Claims about the hand-off from ModelInstance to Model                   *)

\* The Model rows a request for the site may see.
C14_Scoped ==
    LET requested == IF candidates.site = None THEN "site1" ELSE candidates.site
    IN  {r \in path_table :
            ~options.use_sites \/ r._site = NULL \/ r._site = requested}

\* C14  Context hand-off: once a ModelInstance record was matched and its
\* _process_context ran on the shared context, the Model backend's
\* get_instances on that context returns exactly the scoped candidates
\* whose _content_type is the matched record's, whatever object the
\* view_context holds; on an empty context, or one with no content_type key
\* and no object in view_context, it returns no candidates.
C14_ContextHandoff ==
    (candidates.ran /\ candidates.context = shared_context) =>
        /\ (matched.pk # 0 /\ ~matched.raised) =>
              \E m \in mi_table :
                  /\ m.pk = matched.pk
                  /\ candidates.returned = "queryset"
                  /\ candidates.rows =
                        {r \in C14_Scoped : r._content_type = m._content_type}
        /\ (\/ shared_context.none
            \/ /\ shared_context.content_type = "absent"
               /\ shared_context.view_context \in {"absent", "no object"})
              => (candidates.returned = "None" /\ candidates.rows = {})

C14_Witness ==
    /\ candidates.ran /\ candidates.context = shared_context
    /\ matched = [pk |-> 3, raised |-> FALSE]
    /\ shared_context.view_context = "ct1"
    /\ shared_context.content_type = "ct2"
    /\ \E r \in path_table : r._content_type = "ct1"
    /\ candidates.returned = "queryset"
    /\ candidates.rows # {}
    /\ \A r \in candidates.rows : r._content_type = "ct2"

====
